---- MODULE Spec2Model ----
(***************************************************************************)
(* The SSO login workflow of awsc (internal/aws SSOManager): the paginated *)
(* directory listing (ListAccounts, ListRoles), the account / role         *)
(* selection with its interactive fallback (handleAccountRoleSelection)    *)
(* and the login workflow that ties them together (RunLogin).              *)
(*                                                                         *)
(* Strings are sequences of ASCII codes, so that the case-sensitive order  *)
(* of Go's < on strings and the case folding of strings.EqualFold are      *)
(* computed, not assumed.                                                  *)
(***************************************************************************)
EXTENDS Integers, Sequences, FiniteSets, TLC

\* ------------------------------------------------------------------ bounds
\* at most this many accounts in the directory
MaxAccounts == 2
\* at most this many roles in one account
MaxRoles == 2
\* the provider answers a listing in at most this many pages
MaxPages == 2

\* ------------------------------------------------------------- the strings
\* "Dev"
NameDev == <<68, 101, 118>>
\* "dev"
NameLowerDev == <<100, 101, 118>>
\* "Prod"
NameProd == <<80, 114, 111, 100>>
\* "DEV"
HintUpperDev == <<68, 69, 86>>
\* "Qa"
HintQa == <<81, 97>>
\* "Admin"
NameAdmin == <<65, 100, 109, 105, 110>>
\* "ReadOnly"
NameReadOnly == <<82, 101, 97, 100, 79, 110, 108, 121>>
\* "admin"
HintLowerAdmin == <<97, 100, 109, 105, 110>>
\* "Ops"
HintOps == <<79, 112, 115>>
\* ""
Empty == <<>>

\* the account names the directory may hold, and the --account values tried
AccountNames == {NameDev, NameLowerDev, NameProd}
AccountHints == {Empty, HintUpperDev, HintQa}
\* the role names an account may hold, and the --role values tried
RoleNames == {NameAdmin, NameReadOnly}
RoleHints == {Empty, HintLowerAdmin, HintOps}

\* the id of the i-th account the directory enumerates: the digit i
AccountIdOf(i) == <<48 + i>>

\* -------------------------------------------------------- string operations
\* unicode.ToLower on an ASCII code
ToLower(c) == IF c >= 65 /\ c <= 90 THEN c + 32 ELSE c

\* a comparison that forgets to fold the case
EqualExact(s, t) == s = t

\* strings.EqualFold on ASCII strings: equal under case folding
EqualFold(s, t) ==
    /\ Len(s) = Len(t)
    /\ \A i \in 1..Len(s) : ToLower(s[i]) = ToLower(t[i])

\* Go's s < t on strings: bytewise lexicographic order
Less(s, t) ==
    \E k \in 1..Len(t) :
        /\ k <= Len(s) + 1
        /\ \A i \in 1..(k - 1) : s[i] = t[i]
        /\ IF k = Len(s) + 1 THEN TRUE ELSE s[k] < t[k]

\* the less function handed to sort.Slice for accounts
AccountLess(a, b) == Less(a.name, b.name)

\* the less function handed to sort.Slice for roles
RoleLess(a, b) == Less(a.name, b.name)

\* the orders of seq obtained by permuting its positions
Reorderings(seq) ==
    { [i \in 1..Len(seq) |-> seq[p[i]]] : p \in Permutations(1..Len(seq)) }

\* a sort of the accounts that orders them descending
SortAccountsDescending(seq) ==
    { r \in Reorderings(seq) :
        \A i \in 1..Len(r) : \A j \in 1..Len(r) : i < j => ~AccountLess(r[i], r[j]) }

\* a sort that leaves the accounts in the order of the enumeration
SortAccountsSkipped(seq) == {seq}

\* sort.Slice(accounts, less): the slice reordered so that no element is less
\* than an earlier one. sort.Slice is documented as not stable, so every such
\* reordering of the slice is an outcome.
SortAccounts(seq) ==
    { r \in Reorderings(seq) :
        \A i \in 1..Len(r) : \A j \in 1..Len(r) : i < j => ~AccountLess(r[j], r[i]) }

\* sort.Slice(roles, less), as for the accounts
SortRoles(seq) ==
    { r \in Reorderings(seq) :
        \A i \in 1..Len(r) : \A j \in 1..Len(r) : i < j => ~RoleLess(r[j], r[i]) }

\* the index (1-based) of the first element whose name folds to hint, 0 if none:
\* the loop "for i, x := range xs { if strings.EqualFold(*x.Name, hint) {...; break} }"
FirstMatch(seq, hint) ==
    IF \E i \in 1..Len(seq) : EqualFold(seq[i].name, hint)
    THEN CHOOSE i \in 1..Len(seq) :
            /\ EqualFold(seq[i].name, hint)
            /\ \A j \in 1..(i - 1) : ~EqualFold(seq[j].name, hint)
    ELSE 0

\* fmt.Sprintf("%s (%s)", name, id)
AccountOption(a) == a.name \o <<32, 40>> \o a.id \o <<41>>

\* the option shown for a role: its name
RoleOption(r) == r.name

\* ------------------------------------------------------------ the provider
\* the sequences of length 0..n over S
SeqsUpTo(S, n) == UNION { [1..k -> S] : k \in 0..n }

\* the account lists the directory may enumerate; ids follow the enumeration
AccountListings ==
    { [i \in 1..Len(ns) |-> [name |-> ns[i], id |-> AccountIdOf(i)]] :
        ns \in SeqsUpTo(AccountNames, MaxAccounts) }

\* the role lists an account may enumerate
RoleListings ==
    { [i \in 1..Len(ns) |-> [name |-> ns[i]]] : ns \in SeqsUpTo(RoleNames, MaxRoles) }

\* ---------------------------------------------------------------- values
NoToken == "none"
NoAccount == [name |-> Empty, id |-> Empty]
NoRole == [name |-> Empty]
NoCreds == [token |-> NoToken, accountId |-> Empty, roleName |-> Empty]
NoProfile == <<>>
\* the account cache file once the model has stopped tracking its content
Untracked == <<"untracked">>
\* a cursor (NextToken) names the page it follows and where the next page
\* starts in the provider's enumeration; the nil cursor stands for no cursor
NilCursor == [page |-> 0, offset |-> 0]

VARIABLES
    force,          \* RunLogin parameter
    accountName,    \* RunLogin parameter: the --account hint
    roleName,       \* RunLogin parameter: the --role hint
    cachedToken,    \* the token cache file: NoToken when unreadable
    pc,             \* the position in RunLogin / handleAccountRoleSelection
    result,         \* what RunLogin returned: "" while running, "ok", or the error
    accessToken,    \* local accessToken
    accounts,       \* local accounts (slice, sorted in place)
    listErr,        \* the error of the last listing call
    directory,      \* the items the provider enumerates for the listing call in progress
    nextToken,      \* local nextToken of the listing loop
    allAccounts,    \* local allAccounts of ListAccounts
    allRoles,       \* local allRoles of ListRoles
    requests,       \* the number of page requests of the listing call
    lastCursor,     \* the NextToken of the provider's last answer in the listing call
    failures,       \* the number of page requests of the listing call that failed
    listed,         \* what the last listing call returned, in enumeration order
    selectedAccount,
    selectedAccountIndex,
    accountOptions,
    roles,          \* local roles (slice, sorted in place)
    selectedRole,
    selectedRoleIndex,
    roleOptions,
    choice,         \* what ui.RunSelector returned last: [index, err]
    creds,          \* local creds
    profileName,    \* local profileName
    calls,          \* the calls made to the collaborators, in order
    stdout,         \* the lines printed that matter to the caller
    accountCache,   \* the account cache file, tracked until the selection starts
    profiles,       \* the credential store: the profiles written
    sessions,       \* the session store: the sessions saved
    command,        \* the resource command invoked, NoCommand when it is the login
    switchAccount,  \* the command's --switch-account flag
    cmdPc,          \* the position in the command's run function
    justAuthenticated, \* local justAuthenticated
    manager,        \* local manager (secretsManager, ec2Manager, ...)
    cmdCalls,       \* the calls the command made, in order
    exitStatus,     \* <<>> while the process runs, then its exit status
    output          \* the last line the command printed

loginVars == <<force, accountName, roleName, cachedToken, pc, result, accessToken,
          accounts, listErr, directory, nextToken, allAccounts, allRoles, requests,
          lastCursor, failures,
          listed, selectedAccount, selectedAccountIndex, accountOptions, roles,
          selectedRole, selectedRoleIndex, roleOptions, choice, creds,
          profileName, calls, stdout, accountCache, profiles, sessions>>

cmdVars == <<command, switchAccount, cmdPc, justAuthenticated, manager, cmdCalls,
             exitStatus, output>>

vars == <<loginVars, cmdVars>>

inputVars == <<force, accountName, roleName>>
listVars == <<directory, nextToken, allAccounts, allRoles, requests, lastCursor,
              failures>>
accountVars == <<selectedAccount, selectedAccountIndex, accountOptions>>
roleVars == <<roles, selectedRole, selectedRoleIndex, roleOptions>>
tailVars == <<creds, profileName, profiles, sessions>>

\* one call to a collaborator, logged when it returns: what was called, with
\* which token ("-" when it takes none), whether it succeeded, and whether it
\* returned any item (FALSE when it returns no list)
Call(op, token, ok, some) == [op |-> op, token |-> token, ok |-> ok, some |-> some]

\* the process ids a login invoked from the shell may run under, and the
\* shell's own: os.Getppid() of every such login
Pids == {"pid1", "pid2"}
Ppid == "ppid"

\* a session keyed by the login's own process id
SessionOwnerSelf(pid, ppid) == pid

\* ppid := os.Getppid(); awscconfig.SaveSession(ppid, ...): the key of the
\* session is the parent's id, whatever the login's own id
SessionOwner(pid, ppid) == ppid

NoChoice == [index |-> -1, err |-> FALSE, made |-> FALSE]

\* the resource commands: secrets show, ec2 connect, ec2 rdp, rds connect and
\* opensearch connect
Commands == {"secrets show", "ec2 connect", "ec2 rdp", "rds connect",
             "opensearch connect"}
NoCommand == ""

\* no manager: the nil a failed creation leaves
NoManager == [by |-> 0]

\* no resource command is running: the invocation is the login command
CommandNotRunning ==
    /\ command = NoCommand
    /\ switchAccount = FALSE
    /\ cmdPc = "idle"
    /\ justAuthenticated = FALSE
    /\ manager = NoManager
    /\ cmdCalls = <<>>
    /\ exitStatus = <<>>
    /\ output = <<>>

Init ==
    /\ CommandNotRunning
    /\ force \in BOOLEAN
    /\ accountName \in AccountHints
    /\ roleName \in RoleHints
    /\ cachedToken \in {NoToken, "cached"}
    /\ pc = "start"
    /\ result = ""
    /\ accessToken = NoToken
    /\ accounts = <<>>
    /\ listErr = FALSE
    /\ directory = <<>>
    /\ nextToken = NilCursor
    /\ allAccounts = <<>>
    /\ allRoles = <<>>
    /\ requests = 0
    /\ lastCursor = NilCursor
    /\ failures = 0
    /\ listed = <<>>
    /\ selectedAccount = NoAccount
    /\ selectedAccountIndex = -1
    /\ accountOptions = <<>>
    /\ roles = <<>>
    /\ selectedRole = NoRole
    /\ selectedRoleIndex = -1
    /\ roleOptions = <<>>
    /\ choice = NoChoice
    /\ creds = NoCreds
    /\ profileName = NoProfile
    /\ calls = <<>>
    /\ stdout = <<>>
    /\ accountCache = <<>>
    /\ profiles = {}
    /\ sessions = {}

\* ------------------------------------------------------------- the helpers
\* return fmt.Errorf(msg): RunLogin ends with that error
Fail(msg) == result' = msg /\ pc' = "done"

\* the start of a listing call: the locals of ListAccounts / ListRoles, and the
\* items the provider enumerates for this call
BeginListing(items) ==
    /\ directory' = items
    /\ nextToken' = NilCursor
    /\ allAccounts' = <<>>
    /\ allRoles' = <<>>
    /\ requests' = 0
    /\ lastCursor' = NilCursor
    /\ failures' = 0

\* the listing call has returned and its result has been read: the provider's
\* side of the call is over
EndListing ==
    /\ directory' = <<>>
    /\ requests' = 0
    /\ lastCursor' = NilCursor
    /\ failures' = 0

\* the answers the provider may give to the request carrying cursor: the next
\* items of its enumeration, as many as it likes (none included), and a cursor
\* for the rest; no cursor only when nothing is left, and always by page MaxPages
ProviderResponses(cursor) ==
    LET left == Len(directory) - cursor.offset
        answers == { [page |-> SubSeq(directory, cursor.offset + 1, cursor.offset + m),
                      cursor |-> IF more
                                 THEN [page |-> cursor.page + 1,
                                       offset |-> cursor.offset + m]
                                 ELSE NilCursor] :
                        m \in 0..left, more \in BOOLEAN }
    IN  { r \in answers :
            IF r.cursor = NilCursor
            THEN Len(r.page) = left
            ELSE cursor.page + 1 < MaxPages }

\* an append that puts the new page in front
PrependPage(all, page) == page \o all

\* allAccounts = append(allAccounts, result.AccountList...)
AppendPage(all, page) == all \o page

\* a listing that keeps what it has gathered when a page fails
PartialOnError(all) == all

\* a loop that goes on to the next page when a page fails
ContinuesOnError(failed) == FALSE

\* if err != nil { return nil, err }
ReturnsOnError(failed) == failed

\* a loop that sends every request without a cursor
CursorDropped(cursor) == NilCursor

\* nextToken = result.NextToken
CursorKept(cursor) == cursor

\* return nil, err
ResultOnError(all) == <<>>

\* credentialsManager.GetCachedToken(): the cached token, or NoToken for the
\* error (no token cached, or the cache cannot be read)
GetCachedToken == {cachedToken, NoToken}

\* an emptiness check that never finds the list empty
IsEmptyNever(list) == FALSE

\* if len(accounts) == 0 (line 408), if len(roles) == 0 (line 473)
IsEmpty(list) == Len(list) = 0

\* a check that never trusts the cached token
TokenNeverWorks == FALSE

\* if listErr == nil && len(accounts) > 0
TokenWorks == ~listErr /\ Len(accounts) > 0

\* what ui.RunSelector may return for n options: an index, -1, or an error
SelectorResults(n) ==
    { [index |-> i, err |-> FALSE, made |-> TRUE] : i \in (-1)..(n - 1) }
        \cup { [index |-> -1, err |-> TRUE, made |-> TRUE] }

\* a selection that takes the first entry when nothing was selected
SelectedOrFirst(sorted, c, none) ==
    IF c.err THEN [abort |-> "error", entry |-> none]
    ELSE IF c.index = -1 THEN [abort |-> "", entry |-> sorted[1]]
    ELSE [abort |-> "", entry |-> sorted[c.index + 1]]

\* what follows ui.RunSelector's answer c: if err != nil { return ... };
\* if selectedIndex == -1 { return ... }; selected = sorted[selectedIndex]
Selected(sorted, c, none) ==
    IF c.err THEN [abort |-> "error", entry |-> none]
    ELSE IF c.index = -1 THEN [abort |-> "none", entry |-> none]
    ELSE [abort |-> "", entry |-> sorted[c.index + 1]]

\* the profile name WriteProfile derives from the account and role names
ProfileName(account, role) == [account |-> account, role |-> role]

\* ------------------------------------------------------------- the actions
\* a start that tries the cached token even when force is set
ForceIgnored == "tryCached"

\* if !force { ... }: the cached token is tried only when force is false
FirstStep == IF force THEN "authenticate" ELSE "tryCached"

\* RunLogin, lines 356-366: the configuration check and the credentials manager
Start ==
    /\ pc = "start"
    /\ \E outcome \in {"noConfig", "noManager", "ok"} :
        CASE outcome = "noConfig" ->
                Fail("no SSO configuration found")
          [] outcome = "noManager" ->
                Fail("failed to create credentials manager")
          [] OTHER ->
                /\ pc' = FirstStep
                /\ result' = result
    /\ UNCHANGED <<cmdVars, inputVars, cachedToken, accessToken, accounts, listErr,
                   listVars, listed, accountVars, roleVars, choice, tailVars,
                   calls, stdout, accountCache>>

\* RunLogin, lines 369-373: read the cached token and, when it is readable,
\* call ListAccounts with it
TryCachedToken ==
    /\ pc = "tryCached"
    /\ \E tok \in GetCachedToken :
        IF tok # NoToken
        THEN /\ accessToken' = tok
             /\ calls' = Append(calls, Call("GetCachedToken", tok, TRUE, FALSE))
             /\ \E l \in AccountListings : BeginListing(l)
             /\ pc' = "listAccountsCached"
        ELSE /\ calls' = Append(calls, Call("GetCachedToken", NoToken, FALSE, FALSE))
             /\ pc' = "authenticate"
             /\ UNCHANGED <<accessToken, listVars>>
    /\ UNCHANGED <<cmdVars, inputVars, cachedToken, result, accounts, listErr, listed,
                   accountVars, roleVars, choice, tailVars, stdout, accountCache>>

\* ListAccounts, lines 288-308: one turn of the loop, a page request, and the
\* return when the page fails or carries no cursor
ListAccounts ==
    /\ pc \in {"listAccountsCached", "listAccountsFresh"}
    /\ requests' = requests + 1
    /\ \E failed \in BOOLEAN : \E resp \in ProviderResponses(nextToken) :
        LET all == AppendPage(allAccounts, resp.page)
            after == IF pc = "listAccountsCached" THEN "cachedListed"
                     ELSE "freshListed"
        IN  /\ failures' = IF failed THEN failures + 1 ELSE failures
            /\ lastCursor' = IF failed THEN lastCursor ELSE resp.cursor
            /\ IF ReturnsOnError(failed)
               THEN /\ accounts' = ResultOnError(allAccounts)
                    /\ listErr' = TRUE
                    /\ listed' = accounts'
                    /\ calls' = Append(calls, Call("ListAccounts", accessToken, FALSE,
                                                   accounts' # <<>>))
                    /\ allAccounts' = <<>>
                    /\ nextToken' = NilCursor
                    /\ pc' = after
               ELSE IF resp.cursor = NilCursor
               THEN /\ accounts' = all
                    /\ listErr' = FALSE
                    /\ listed' = all
                    /\ calls' = Append(calls, Call("ListAccounts", accessToken, TRUE,
                                                   all # <<>>))
                    /\ allAccounts' = <<>>
                    /\ nextToken' = NilCursor
                    /\ pc' = after
               ELSE /\ allAccounts' = all
                    /\ nextToken' = CursorKept(resp.cursor)
                    /\ UNCHANGED <<accounts, listErr, listed, pc, calls>>
    /\ UNCHANGED <<cmdVars, inputVars, cachedToken, result, accessToken, directory, allRoles,
                   accountVars, roleVars, choice, tailVars, stdout, accountCache>>

\* a cache write that stores an empty list
CacheContentEmpty(accs) == <<>>

\* SaveAccountCache(accounts): the list handed to the cache write
CacheContent(accs) == accs

\* a cache write whose failure is returned
CacheErrorReturned(saved) == saved

\* if err := awscconfig.SaveAccountCache(accounts); err != nil { fmt.Printf(
\* "Warning: ...") }: the login goes on whether the write succeeded or failed
CacheErrorIgnored(saved) == TRUE

\* awscconfig.SaveAccountCache(accounts), whose failure is only a warning, and
\* the call of handleAccountRoleSelection that follows it
SaveAccountCache ==
    \E saved \in BOOLEAN :
        /\ calls' = Append(calls, Call("SaveAccountCache", "-", saved, FALSE))
        /\ accountCache' = IF saved THEN CacheContent(accounts) ELSE accountCache
        /\ stdout' = IF saved THEN stdout
                     ELSE Append(stdout, [text |-> "Warning: failed to save account cache",
                                          arg |-> <<>>])
        /\ IF CacheErrorIgnored(saved)
           THEN pc' = "selectAccount" /\ result' = result
           ELSE Fail("error saving account cache")

\* RunLogin, lines 374-385: the cached token works when the listing succeeded
\* with at least one account; otherwise fall through to re-authentication
CachedListed ==
    /\ pc = "cachedListed"
    /\ IF TokenWorks
       THEN SaveAccountCache
       ELSE /\ pc' = "authenticate"
            /\ UNCHANGED <<result, calls, accountCache, stdout>>
    /\ EndListing
    /\ UNCHANGED <<cmdVars, inputVars, cachedToken, accessToken, accounts, listErr,
                   nextToken, allAccounts, allRoles, listed,
                   accountVars, roleVars, choice, tailVars>>

\* RunLogin, lines 386-394: credentialsManager.Authenticate
Authenticate ==
    /\ pc = "authenticate"
    /\ \E ok \in BOOLEAN :
        /\ calls' = Append(calls, Call("Authenticate", "-", ok, FALSE))
        /\ IF ok
           THEN /\ cachedToken' = "fresh"
                /\ pc' = "getFreshToken"
                /\ result' = result
           ELSE /\ Fail("SSO authentication failed")
                /\ cachedToken' = cachedToken
    /\ UNCHANGED <<cmdVars, inputVars, accessToken, accounts, listErr, listVars, listed,
                   accountVars, roleVars, choice, tailVars, stdout, accountCache>>

\* RunLogin, lines 396-403: read the fresh token and call ListAccounts with it
GetFreshToken ==
    /\ pc = "getFreshToken"
    /\ \E tok \in GetCachedToken :
        IF tok # NoToken
        THEN /\ accessToken' = tok
             /\ calls' = Append(calls, Call("GetCachedToken", tok, TRUE, FALSE))
             /\ \E l \in AccountListings : BeginListing(l)
             /\ pc' = "listAccountsFresh"
             /\ result' = result
        ELSE /\ calls' = Append(calls, Call("GetCachedToken", NoToken, FALSE, FALSE))
             /\ Fail("failed to get access token")
             /\ UNCHANGED <<accessToken, listVars>>
    /\ UNCHANGED <<cmdVars, inputVars, cachedToken, accounts, listErr, listed,
                   accountVars, roleVars, choice, tailVars, stdout, accountCache>>

\* a workflow that authenticates again when the listing fails
FreshListingErrorRetried == result' = result /\ pc' = "authenticate"

\* if err != nil { return fmt.Errorf("error listing accounts: %v", err) }
FreshListingError == Fail("error listing accounts")

\* RunLogin, lines 404-418: after the listing with the fresh token
FreshListed ==
    /\ pc = "freshListed"
    /\ IF listErr
       THEN /\ FreshListingError
            /\ UNCHANGED <<calls, accountCache, stdout>>
       ELSE IF IsEmpty(accounts)
       THEN /\ Fail("no accounts found")
            /\ UNCHANGED <<calls, accountCache, stdout>>
       ELSE SaveAccountCache
    /\ EndListing
    /\ UNCHANGED <<cmdVars, inputVars, cachedToken, accessToken, accounts, listErr,
                   nextToken, allAccounts, allRoles, listed,
                   accountVars, roleVars, choice, tailVars>>

\* handleAccountRoleSelection, lines 421-465: sort the accounts, look for the
\* account the hint names, and ask the selector when there is no hint or no match
SelectAccount ==
    /\ pc = "selectAccount"
    /\ \E sorted \in SortAccounts(accounts) :
        LET match == IF accountName # Empty THEN FirstMatch(sorted, accountName) ELSE 0
            options == [i \in 1..Len(sorted) |-> AccountOption(sorted[i])]
        IN  /\ accounts' = sorted
            /\ IF match # 0
               THEN /\ selectedAccount' = sorted[match]
                    /\ selectedAccountIndex' = match - 1
                    /\ pc' = "listRoles"
                    /\ UNCHANGED <<accountOptions, choice, calls, result>>
               ELSE /\ accountOptions' = options
                    /\ selectedAccountIndex' = -1
                    /\ \E c \in SelectorResults(Len(options)) :
                        /\ choice' = c
                        /\ calls' = Append(calls, Call("RunSelector(account)", "-", ~c.err, FALSE))
                        /\ LET sel == Selected(sorted, c, NoAccount)
                           IN  IF sel.abort # ""
                               THEN /\ Fail(IF sel.abort = "error"
                                            THEN "error selecting account"
                                            ELSE "no account selected")
                                    /\ UNCHANGED selectedAccount
                               ELSE /\ selectedAccount' = sel.entry
                                    /\ pc' = "listRoles"
                                    /\ result' = result
    /\ UNCHANGED <<cmdVars, inputVars, cachedToken, accessToken, listErr, listVars, listed,
                   roleVars, tailVars, stdout, accountCache>>

\* handleAccountRoleSelection, line 468: call ListRoles for the selected
\* account. The selector block of lines 448-464 has ended, and accounts is not
\* read again; nor does the workflow read the account cache file, whose content
\* the model tracks no further.
CallListRoles ==
    /\ pc = "listRoles"
    /\ \E l \in RoleListings : BeginListing(l)
    /\ accounts' = <<>>
    /\ accountOptions' = <<>>
    /\ choice' = NoChoice
    /\ listed' = <<>>
    /\ accountCache' = Untracked
    /\ pc' = "listRolesLoop"
    /\ UNCHANGED <<cmdVars, inputVars, cachedToken, result, accessToken, listErr,
                   selectedAccount, selectedAccountIndex, roleVars, tailVars,
                   calls, stdout>>

\* ListRoles, lines 315-336: one turn of the loop, a page request, and the
\* return when the page fails or carries no cursor
ListRoles ==
    /\ pc = "listRolesLoop"
    /\ requests' = requests + 1
    /\ \E failed \in BOOLEAN : \E resp \in ProviderResponses(nextToken) :
        LET all == AppendPage(allRoles, resp.page)
        IN  /\ failures' = IF failed THEN failures + 1 ELSE failures
            /\ lastCursor' = IF failed THEN lastCursor ELSE resp.cursor
            /\ IF ReturnsOnError(failed)
               THEN /\ roles' = ResultOnError(allRoles)
                    /\ listErr' = TRUE
                    /\ listed' = roles'
                    /\ calls' = Append(calls, Call("ListRoles", accessToken, FALSE,
                                                   roles' # <<>>))
                    /\ allRoles' = <<>>
                    /\ nextToken' = NilCursor
                    /\ pc' = "rolesListed"
               ELSE IF resp.cursor = NilCursor
               THEN /\ roles' = all
                    /\ listErr' = FALSE
                    /\ listed' = all
                    /\ calls' = Append(calls, Call("ListRoles", accessToken, TRUE,
                                                   all # <<>>))
                    /\ allRoles' = <<>>
                    /\ nextToken' = NilCursor
                    /\ pc' = "rolesListed"
               ELSE /\ allRoles' = all
                    /\ nextToken' = CursorKept(resp.cursor)
                    /\ UNCHANGED <<roles, listErr, listed, pc, calls>>
    /\ UNCHANGED <<cmdVars, inputVars, cachedToken, result, accessToken, accounts, directory,
                   allAccounts, accountVars, selectedRole, selectedRoleIndex,
                   roleOptions, choice, tailVars, stdout, accountCache>>

\* handleAccountRoleSelection, lines 469-520: the listing's error and the empty
\* listing end the login; otherwise sort the roles, look for the role the hint
\* names, and ask the selector when there is no hint or no match
SelectRole ==
    /\ pc = "rolesListed"
    /\ EndListing
    /\ IF listErr
       THEN /\ Fail("error listing roles")
            /\ UNCHANGED <<roleVars, choice, calls>>
       ELSE IF IsEmpty(roles)
       THEN /\ Fail("no roles found for this account")
            /\ UNCHANGED <<roleVars, choice, calls>>
       ELSE \E sorted \in SortRoles(roles) :
        LET match == IF roleName # Empty THEN FirstMatch(sorted, roleName) ELSE 0
            options == [i \in 1..Len(sorted) |-> RoleOption(sorted[i])]
        IN  /\ roles' = sorted
            /\ IF match # 0
               THEN /\ selectedRole' = sorted[match]
                    /\ selectedRoleIndex' = match - 1
                    /\ pc' = "getRoleCredentials"
                    /\ UNCHANGED <<roleOptions, choice, calls, result>>
               ELSE /\ roleOptions' = options
                    /\ selectedRoleIndex' = -1
                    /\ \E c \in SelectorResults(Len(options)) :
                        /\ choice' = c
                        /\ calls' = Append(calls, Call("RunSelector(role)", "-", ~c.err, FALSE))
                        /\ LET sel == Selected(sorted, c, NoRole)
                           IN  IF sel.abort # ""
                               THEN /\ Fail(IF sel.abort = "error"
                                            THEN "error selecting role"
                                            ELSE "no role selected")
                                    /\ UNCHANGED selectedRole
                               ELSE /\ selectedRole' = sel.entry
                                    /\ pc' = "getRoleCredentials"
                                    /\ result' = result
    /\ UNCHANGED <<cmdVars, inputVars, cachedToken, accessToken, accounts, listErr,
                   nextToken, allAccounts, allRoles, listed,
                   accountVars, tailVars, stdout, accountCache>>

\* a credentials failure that lets the login go on
GetRoleCredentialsErrorIgnored == result' = result /\ pc' = "writeProfile"

\* if err != nil { return fmt.Errorf("error getting role credentials: %v", err) }
GetRoleCredentialsError == Fail("error getting role credentials")

\* handleAccountRoleSelection, lines 522-526: the credentials of the selected
\* account and role. The selector block of lines 503-519 has ended, and roles is
\* not read again.
GetRoleCredentials ==
    /\ pc = "getRoleCredentials"
    /\ \E ok \in BOOLEAN :
        /\ calls' = Append(calls, Call("GetRoleCredentials", accessToken, ok, FALSE))
        /\ IF ok
           THEN /\ creds' = [token |-> accessToken,
                             accountId |-> selectedAccount.id,
                             roleName |-> selectedRole.name]
                /\ pc' = "writeProfile"
                /\ result' = result
           ELSE /\ GetRoleCredentialsError
                /\ creds' = creds
    /\ roles' = <<>>
    /\ roleOptions' = <<>>
    /\ choice' = NoChoice
    /\ listed' = <<>>
    /\ UNCHANGED <<cmdVars, inputVars, cachedToken, accessToken, accounts, listErr,
                   listVars, accountVars, selectedRole, selectedRoleIndex,
                   profileName, profiles, sessions, stdout, accountCache>>

\* a profile write whose failure lets the login go on
WriteProfileErrorIgnored == result' = result /\ pc' = "saveSession"

\* if err != nil { return fmt.Errorf("error writing profile: %v", err) }
WriteProfileError == Fail("error writing profile")

\* handleAccountRoleSelection, lines 528-532: awscconfig.WriteProfile
WriteProfile ==
    /\ pc = "writeProfile"
    /\ \E ok \in BOOLEAN :
        /\ calls' = Append(calls, Call("WriteProfile", "-", ok, FALSE))
        /\ IF ok
           THEN /\ profileName' = ProfileName(selectedAccount.name, selectedRole.name)
                /\ profiles' = profiles \cup {[name |-> profileName', creds |-> creds]}
                /\ pc' = "saveSession"
                /\ result' = result
           ELSE /\ WriteProfileError
                /\ UNCHANGED <<profileName, profiles>>
    /\ UNCHANGED <<cmdVars, inputVars, cachedToken, accessToken, accounts, listErr,
                   listVars, listed, accountVars, roleVars, choice, creds,
                   sessions, stdout, accountCache>>

\* a session write whose failure is only a warning
SaveSessionErrorIgnored == result' = result /\ pc' = "cleanup"

\* if err := awscconfig.SaveSession(...); err != nil { return fmt.Errorf(...) }
SaveSessionError == Fail("error saving session")

\* handleAccountRoleSelection, lines 534-538: awscconfig.SaveSession for the
\* parent process
SaveSession ==
    /\ pc = "saveSession"
    /\ \E ok \in BOOLEAN : \E pid \in Pids :
        /\ calls' = Append(calls, Call("SaveSession", "-", ok, FALSE))
        /\ IF ok
           THEN /\ sessions' = sessions \cup
                        {[owner |-> SessionOwner(pid, Ppid),
                          profileName |-> profileName,
                          accountId |-> selectedAccount.id,
                          accountName |-> selectedAccount.name,
                          roleName |-> selectedRole.name]}
                /\ pc' = "cleanup"
                /\ result' = result
           ELSE /\ SaveSessionError
                /\ UNCHANGED sessions
    /\ UNCHANGED <<cmdVars, inputVars, cachedToken, accessToken, accounts, listErr,
                   listVars, listed, accountVars, roleVars, choice, creds,
                   profileName, profiles, stdout, accountCache>>

\* a cleanup whose error is returned
CleanupErrorReturned(ok) == ok

\* _ = awscconfig.CleanupStaleSessions(): the error is dropped
CleanupErrorIgnored(ok) == TRUE

\* handleAccountRoleSelection, lines 540-547: the best-effort cleanup, the
\* export lines and the successful return
CleanupAndReport ==
    /\ pc = "cleanup"
    /\ \E ok \in BOOLEAN :
        /\ calls' = Append(calls, Call("CleanupStaleSessions", "-", ok, FALSE))
        /\ IF CleanupErrorIgnored(ok)
           THEN /\ stdout' = stdout \o
                        <<[text |-> "export AWS_PROFILE", arg |-> profileName],
                          [text |-> "export AWS_REGION", arg |-> <<>>]>>
                /\ result' = "ok"
                /\ pc' = "done"
           ELSE /\ Fail("error cleaning up sessions")
                /\ UNCHANGED stdout
    /\ UNCHANGED <<cmdVars, inputVars, cachedToken, accessToken, accounts, listErr,
                   listVars, listed, accountVars, roleVars, choice, tailVars,
                   accountCache>>

\* ------------------------------------------------- the resource commands
\* the function that creates the command's manager
Constructor(c) ==
    CASE c = "secrets show" -> "aws.NewSecretsManager"
      [] c \in {"ec2 connect", "ec2 rdp"} -> "createEC2Manager"
      [] c = "rds connect" -> "aws.NewRDSManager"
      [] c = "opensearch connect" -> "aws.NewOpenSearchManager"

\* the manager's name in the command's messages
ManagerName(c) ==
    CASE c = "secrets show" -> "secrets manager"
      [] c \in {"ec2 connect", "ec2 rdp"} -> "EC2 manager"
      [] c = "rds connect" -> "RDS manager"
      [] c = "opensearch connect" -> "OpenSearch manager"

\* the operation the command runs on its manager
Operation(c) ==
    CASE c = "secrets show" -> "RunShowSecrets"
      [] c = "ec2 rdp" -> "RunRDP"
      [] c \in {"ec2 connect", "rds connect", "opensearch connect"} -> "RunConnect"

\* what a manager creation may return: a manager, an error that
\* aws.IsAuthError classifies as an auth error, or another error
CreationOutcomes == {"ok", "auth", "other"}

\* aws.IsAuthError(err)
IsAuthError(outcome) == outcome = "auth"

\* one call of the command, logged when it returns: what was called, how it
\* ended, and the manager it was called on or returned
CmdCall(op, outcome, mgr) == [op |-> op, outcome |-> outcome, manager |-> mgr]

\* a resource command starts: its flag is set or not, and nothing has run
CommandInit ==
    /\ force = FALSE
    /\ accountName = Empty
    /\ roleName = Empty
    /\ cachedToken = NoToken
    /\ pc = "idle"
    /\ result = ""
    /\ accessToken = NoToken
    /\ accounts = <<>>
    /\ listErr = FALSE
    /\ directory = <<>>
    /\ nextToken = NilCursor
    /\ allAccounts = <<>>
    /\ allRoles = <<>>
    /\ requests = 0
    /\ lastCursor = NilCursor
    /\ failures = 0
    /\ listed = <<>>
    /\ selectedAccount = NoAccount
    /\ selectedAccountIndex = -1
    /\ accountOptions = <<>>
    /\ roles = <<>>
    /\ selectedRole = NoRole
    /\ selectedRoleIndex = -1
    /\ roleOptions = <<>>
    /\ choice = NoChoice
    /\ creds = NoCreds
    /\ profileName = NoProfile
    /\ calls = <<>>
    /\ stdout = <<>>
    /\ accountCache = <<>>
    /\ profiles = {}
    /\ sessions = {}
    /\ command \in Commands
    /\ switchAccount \in BOOLEAN
    /\ cmdPc = "create"
    /\ justAuthenticated = FALSE
    /\ manager = NoManager
    /\ cmdCalls = <<>>
    /\ exitStatus = <<>>
    /\ output = <<>>

\* fmt.Printf(msg); os.Exit(1)
Exit1(msg) ==
    /\ output' = msg
    /\ exitStatus' = <<1>>
    /\ cmdPc' = "exited"

\* an assignment that leaves the manager created first in place
ManagerKept(old, new) == old

\* secretsManager, err = aws.NewSecretsManager(ctx): the manager is replaced
\* by what the creation returned
ManagerAfter(old, new) == new

\* a manager creation that returns outcome, as the n-th call of the command
Created(outcome, n) == IF outcome = "ok" THEN [by |-> n] ELSE NoManager

\* the first creation of the manager, lines 40-64 of runSecretsShowCommand (and
\* the same lines of the other commands): an auth error goes on to the prompt,
\* any other error exits
CreateManager ==
    /\ cmdPc = "create"
    /\ \E outcome \in CreationOutcomes :
        LET made == Created(outcome, Len(cmdCalls) + 1)
        IN  /\ cmdCalls' = Append(cmdCalls, CmdCall(Constructor(command), outcome, made))
            /\ manager' = made
            /\ IF outcome = "ok"
               THEN /\ cmdPc' = "switch"
                    /\ UNCHANGED <<exitStatus, output>>
               ELSE IF IsAuthError(outcome)
               THEN /\ cmdPc' = "prompt"
                    /\ UNCHANGED <<exitStatus, output>>
               ELSE Exit1(<<"Error creating", ManagerName(command)>>)
    /\ UNCHANGED <<loginVars, command, switchAccount, justAuthenticated>>

\* a declined prompt that lets the command go on
PromptDeclinedIgnored ==
    /\ cmdPc' = "retryCreate"
    /\ UNCHANGED <<exitStatus, output>>

\* if !shouldReauth { fmt.Printf("Authentication cancelled\n"); os.Exit(1) }
PromptDeclined == Exit1(<<"Authentication cancelled">>)

\* aws.PromptForReauth(ctx) and what follows its answer: an error or a declined
\* prompt exits, an accepted one sets justAuthenticated
PromptForReauth ==
    /\ cmdPc = "prompt"
    /\ \E outcome \in {"error", "declined", "ok"} :
        /\ cmdCalls' = Append(cmdCalls, CmdCall("aws.PromptForReauth", outcome, NoManager))
        /\ CASE outcome = "error" ->
                    /\ Exit1(<<"Error during re-authentication">>)
                    /\ UNCHANGED justAuthenticated
             [] outcome = "declined" ->
                    /\ PromptDeclined
                    /\ UNCHANGED justAuthenticated
             [] OTHER ->
                    /\ justAuthenticated' = TRUE
                    /\ cmdPc' = "retryCreate"
                    /\ UNCHANGED <<exitStatus, output>>
    /\ UNCHANGED <<loginVars, command, switchAccount, manager>>

\* the creation of the manager again after the re-authentication: any error
\* exits
RetryCreateManager ==
    /\ cmdPc = "retryCreate"
    /\ \E outcome \in CreationOutcomes :
        LET made == Created(outcome, Len(cmdCalls) + 1)
        IN  /\ cmdCalls' = Append(cmdCalls, CmdCall(Constructor(command), outcome, made))
            /\ manager' = ManagerAfter(manager, made)
            /\ IF outcome = "ok"
               THEN /\ cmdPc' = "switch"
                    /\ UNCHANGED <<exitStatus, output>>
               ELSE Exit1(<<"Error creating", ManagerName(command),
                            "after re-authentication">>)
    /\ UNCHANGED <<loginVars, command, switchAccount, justAuthenticated>>

\* a switch that runs whenever the flag is set
ShouldSwitchAlways == switchAccount

\* if secretsSwitchAccount && !justAuthenticated
ShouldSwitch == switchAccount /\ ~justAuthenticated

\* the account switch, when it is asked for and no re-authentication has just
\* taken place: handleAccountSwitch(ctx), whose error exits
HandleAccountSwitch ==
    /\ cmdPc = "switch"
    /\ IF ShouldSwitch
       THEN \E outcome \in {"ok", "error"} :
            /\ cmdCalls' = Append(cmdCalls, CmdCall("handleAccountSwitch", outcome, NoManager))
            /\ IF outcome = "ok"
               THEN /\ cmdPc' = "recreate"
                    /\ UNCHANGED <<exitStatus, output>>
               ELSE Exit1(<<"account switch failed">>)
       ELSE /\ cmdPc' = "run"
            /\ UNCHANGED <<cmdCalls, exitStatus, output>>
    /\ UNCHANGED <<loginVars, command, switchAccount, justAuthenticated, manager>>

\* the creation of the manager again after the account switch: any error exits
RecreateManager ==
    /\ cmdPc = "recreate"
    /\ \E outcome \in CreationOutcomes :
        LET made == Created(outcome, Len(cmdCalls) + 1)
        IN  /\ cmdCalls' = Append(cmdCalls, CmdCall(Constructor(command), outcome, made))
            /\ manager' = ManagerAfter(manager, made)
            /\ IF outcome = "ok"
               THEN /\ cmdPc' = "run"
                    /\ UNCHANGED <<exitStatus, output>>
               ELSE Exit1(<<"Error creating", ManagerName(command),
                            "after account switch">>)
    /\ UNCHANGED <<loginVars, command, switchAccount, justAuthenticated>>

\* the operation on the manager: its error exits with status 1, and the
\* function's return ends the process with status 0
RunOperation ==
    /\ cmdPc = "run"
    /\ \E outcome \in {"ok", "error"} :
        /\ cmdCalls' = Append(cmdCalls, CmdCall(Operation(command), outcome, manager))
        /\ IF outcome = "ok"
           THEN /\ exitStatus' = <<0>>
                /\ cmdPc' = "exited"
                /\ UNCHANGED output
           ELSE Exit1(<<"Error">>)
    /\ UNCHANGED <<loginVars, command, switchAccount, justAuthenticated, manager>>

\* ------------------------------------------------- what the claims speak of
\* s with its ASCII letters in lower case
Lower(s) == [i \in 1..Len(s) |-> IF s[i] >= 65 /\ s[i] <= 90 THEN s[i] + 32 ELSE s[i]]

\* s and t are equal when the case of their letters is ignored
SameIgnoringCase(s, t) == Lower(s) = Lower(t)

\* hint is not empty and names, ignoring case, at least one entry of seq
HintNames(hint, seq) ==
    /\ hint # Empty
    /\ \E i \in 1..Len(seq) : SameIgnoringCase(seq[i].name, hint)

\* how many times x occurs in seq
Occurrences(seq, x) == Cardinality({i \in 1..Len(seq) : seq[i] = x})

\* a and b hold the same elements, each as many times
SameElements(a, b) ==
    /\ Len(a) = Len(b)
    /\ \A i \in 1..Len(a) : Occurrences(a, a[i]) = Occurrences(b, a[i])

\* how many calls of op were made
CallCount(op) == Cardinality({k \in 1..Len(calls) : calls[k].op = op})

\* the account selection has just been made, or has just failed
AccountSelectionOver ==
    \/ pc = "listRoles"
    \/ result \in {"error selecting account", "no account selected"}

\* the role selection has just been made, or has just failed
RoleSelectionOver ==
    \/ pc = "getRoleCredentials"
    \/ result \in {"error selecting role", "no role selected"}

\* C1: when the --account (--role) hint is not empty and names, ignoring case,
\* one of the listed accounts (roles), the selection picks a listed entry whose
\* name equals the hint ignoring case, and the selector is not run for it.
C1_HintMatchSkipsSelector ==
    /\ (AccountSelectionOver /\ HintNames(accountName, listed)) =>
            /\ pc = "listRoles"
            /\ SameIgnoringCase(selectedAccount.name, accountName)
            /\ \E i \in 1..Len(listed) : listed[i] = selectedAccount
            /\ ~choice.made
            /\ accountOptions = <<>>
            /\ CallCount("RunSelector(account)") = 0
    /\ (RoleSelectionOver /\ HintNames(roleName, listed)) =>
            /\ pc = "getRoleCredentials"
            /\ SameIgnoringCase(selectedRole.name, roleName)
            /\ \E i \in 1..Len(listed) : listed[i] = selectedRole
            /\ ~choice.made
            /\ roleOptions = <<>>
            /\ CallCount("RunSelector(role)") = 0

\* C1 witness: the role "Admin" was taken for the hint "admin" out of two roles,
\* after the account was taken for the hint "DEV" out of accounts that do not all
\* match it, and no selector has run.
C1_Witness ==
    /\ pc = "getRoleCredentials"
    /\ accountName = HintUpperDev
    /\ selectedAccount.name = NameLowerDev
    /\ selectedAccount.id = AccountIdOf(1)
    /\ selectedAccountIndex = 1
    /\ roleName = HintLowerAdmin
    /\ selectedRole.name = NameAdmin
    /\ Len(listed) = 2
    /\ listed[1].name = NameReadOnly
    /\ CallCount("RunSelector(account)") = 0
    /\ CallCount("RunSelector(role)") = 0

\* C2: when the hint is empty or names none of the listed accounts (roles), the
\* selector is run exactly once for that selection, its options are the listed
\* candidates, one option each, in ascending case-sensitive name order, and the
\* entry selected is the candidate at the index the selector returned.
C2_NoMatchRunsSelector ==
    /\ (AccountSelectionOver /\ ~HintNames(accountName, listed)) =>
            /\ CallCount("RunSelector(account)") = 1
            /\ choice.made
            /\ SameElements(accounts, listed)
            /\ Len(accountOptions) = Len(listed)
            /\ \A i \in 1..Len(accountOptions) :
                    accountOptions[i] = AccountOption(accounts[i])
            /\ \A i \in 1..Len(accounts) : \A j \in 1..Len(accounts) :
                    i < j => ~Less(accounts[j].name, accounts[i].name)
            /\ pc = "listRoles" =>
                    /\ choice.index \in 0..(Len(accounts) - 1)
                    /\ selectedAccount = accounts[choice.index + 1]
    /\ (RoleSelectionOver /\ ~HintNames(roleName, listed)) =>
            /\ CallCount("RunSelector(role)") = 1
            /\ choice.made
            /\ SameElements(roles, listed)
            /\ Len(roleOptions) = Len(listed)
            /\ \A i \in 1..Len(roleOptions) : roleOptions[i] = RoleOption(roles[i])
            /\ \A i \in 1..Len(roles) : \A j \in 1..Len(roles) :
                    i < j => ~Less(roles[j].name, roles[i].name)
            /\ pc = "getRoleCredentials" =>
                    /\ choice.index \in 0..(Len(roles) - 1)
                    /\ selectedRole = roles[choice.index + 1]

\* C2 witness: for the hint "Qa", which names no account, the selector was shown
\* two accounts that the sort had to swap, and its second option was taken.
C2_Witness ==
    /\ pc = "listRoles"
    /\ accountName = HintQa
    /\ choice.made
    /\ choice.index = 1
    /\ Len(accountOptions) = 2
    /\ listed[1].name = NameProd
    /\ listed[2].name = NameDev
    /\ selectedAccount = listed[1]
    /\ CallCount("RunSelector(account)") = 1

\* a listing call has just returned
AccountsReturned == pc \in {"cachedListed", "freshListed"}
RolesReturned == pc = "rolesListed"

\* C3: a listing that succeeds returns the provider's items in the provider's
\* order, whatever pages the provider cut them into: the pages gathered so far
\* are the items up to the last cursor, and the result is the whole enumeration,
\* which is what a single page would have carried.
C3_ListingIsConcatenation ==
    /\ pc \in {"listAccountsCached", "listAccountsFresh"} =>
            allAccounts = SubSeq(directory, 1, lastCursor.offset)
    /\ pc = "listRolesLoop" => allRoles = SubSeq(directory, 1, lastCursor.offset)
    /\ (AccountsReturned /\ ~listErr) => accounts = directory
    /\ (RolesReturned /\ ~listErr) => roles = directory

\* C3 witness: two different accounts came back in as many pages as the provider
\* may use, each of the first two pages carrying one of them.
C3_Witness ==
    /\ pc = "freshListed"
    /\ ~listErr
    /\ requests = MaxPages
    /\ Len(accounts) = 2
    /\ accounts[1].name = NameProd
    /\ accounts[2].name = NameDev

\* C4: a listing that fails on any page returns the error and no items, and the
\* failing request is its last one: no request follows a failed request.
C4_PageFailureAborts ==
    /\ failures <= 1
    /\ pc \in {"listAccountsCached", "listAccountsFresh", "listRolesLoop"} =>
            failures = 0
    /\ (AccountsReturned /\ listErr) =>
            /\ accounts = <<>>
            /\ failures = 1
            /\ calls[Len(calls)] = Call("ListAccounts", accessToken, FALSE, FALSE)
    /\ (RolesReturned /\ listErr) =>
            /\ roles = <<>>
            /\ failures = 1
            /\ calls[Len(calls)] = Call("ListRoles", accessToken, FALSE, FALSE)
    /\ (AccountsReturned \/ RolesReturned) => (listErr <=> failures = 1)

\* C4 witness: the second page request of a role listing failed after the first
\* page had delivered a role.
C4_Witness ==
    /\ pc = "rolesListed"
    /\ listErr
    /\ requests = 2
    /\ lastCursor.offset >= 1
    /\ roles = <<>>


\* r is seq sorted by name with equal names left in the order of seq
IsStableSortOf(r, seq) ==
    /\ Len(r) = Len(seq)
    /\ \E p \in Permutations(1..Len(seq)) :
        /\ \A i \in 1..Len(seq) : r[i] = seq[p[i]]
        /\ \A i \in 1..Len(seq) : \A j \in 1..Len(seq) :
            i < j => /\ ~Less(r[j].name, r[i].name)
                     /\ r[i].name = r[j].name => p[i] < p[j]

\* C5: the sort before the matching is stable: once the accounts (roles) are
\* sorted, equal names are in the order of the enumeration, so the entry taken
\* for a hint is the first enumerated among the entries that bear its name.
C5_SortIsStable ==
    /\ AccountSelectionOver =>
            /\ IsStableSortOf(accounts, listed)
            /\ (pc = "listRoles" /\ HintNames(accountName, listed)) =>
                    \A k \in 1..Len(listed) :
                        listed[k].name = selectedAccount.name =>
                            \E i \in 1..k : listed[i] = selectedAccount
    /\ RoleSelectionOver => IsStableSortOf(roles, listed)

\* the calls that use what the selection produced
AfterSelectionCalls ==
    {"GetRoleCredentials", "WriteProfile", "SaveSession", "CleanupStaleSessions"}

\* C6: when the selector returns an error or the index -1, for the account or
\* for the role, the login has failed with the selector's call as its last call:
\* no entry was selected in its place, and neither ListRoles (after an account
\* selection that was given up) nor GetRoleCredentials, WriteProfile or
\* SaveSession was called.
C6_SelectorAbortEndsLogin ==
    (choice.made /\ (choice.err \/ choice.index = -1)) =>
        /\ pc = "done"
        /\ result \in {"error selecting account", "no account selected",
                       "error selecting role", "no role selected"}
        /\ calls[Len(calls)].op \in {"RunSelector(account)", "RunSelector(role)"}
        /\ calls[Len(calls)].op = "RunSelector(account)" =>
                /\ selectedAccount = NoAccount
                /\ CallCount("ListRoles") = 0
        /\ selectedRole = NoRole
        /\ \A k \in 1..Len(calls) : calls[k].op \notin AfterSelectionCalls
        /\ creds = NoCreds
        /\ profiles = {}
        /\ sessions = {}
        /\ stdout = <<>> \/ stdout[Len(stdout)].text # "export AWS_REGION"

\* C6 witness: the account was selected, and then the role selector returned
\* the index -1 without an error.
C6_Witness ==
    /\ pc = "done"
    /\ result = "no role selected"
    /\ choice.made
    /\ ~choice.err
    /\ choice.index = -1
    /\ selectedAccount # NoAccount
    /\ CallCount("ListRoles") = 1

\* the export lines have been printed, for the profile written
ExportsPrinted ==
    /\ Len(stdout) >= 2
    /\ stdout[Len(stdout) - 1] = [text |-> "export AWS_PROFILE", arg |-> profileName]
    /\ stdout[Len(stdout)].text = "export AWS_REGION"

\* SaveSession was called and failed
SaveSessionFailed ==
    \E k \in 1..Len(calls) : calls[k].op = "SaveSession" /\ ~calls[k].ok

\* C7, as claimed: a failure of SaveSession after the profile was written is
\* only a warning, and the login still ends in success with the export lines
\* printed.
C7_SessionFailureIsWarning ==
    (pc = "done" /\ SaveSessionFailed) => (result = "ok" /\ ExportsPrinted)

\* C7, amended: a failure of SaveSession after the profile was written ends the
\* login in failure: RunLogin returns "error saving session", SaveSession is its
\* last call (no cleanup), no export line is printed and no session is saved,
\* while the profile written stays.
C7_SessionFailureIsFatal ==
    SaveSessionFailed =>
        /\ pc = "done"
        /\ result = "error saving session"
        /\ calls[Len(calls)].op = "SaveSession"
        /\ CallCount("CleanupStaleSessions") = 0
        /\ \A k \in 1..Len(stdout) :
                stdout[k].text \notin {"export AWS_PROFILE", "export AWS_REGION"}
        /\ sessions = {}
        /\ profiles = {[name |-> profileName, creds |-> creds]}

\* C7 witness: the profile was written and the session write then failed.
C7_Witness ==
    /\ pc = "done"
    /\ SaveSessionFailed
    /\ calls[Len(calls) - 1] = Call("WriteProfile", "-", TRUE, FALSE)
    /\ profiles # {}

\* C8: once CleanupStaleSessions has been called, that is after the profile and
\* the session were written, the login has ended in success with the export
\* lines printed, whether the cleanup succeeded or failed.
C8_CleanupNeverFailsLogin ==
    /\ CallCount("CleanupStaleSessions") <= 1
    /\ pc = "cleanup" => (profiles # {} /\ sessions # {} /\ result = "")
    /\ \A k \in 1..Len(calls) :
        calls[k].op = "CleanupStaleSessions" =>
            /\ k = Len(calls)
            /\ calls[k - 2] = Call("WriteProfile", "-", TRUE, FALSE)
            /\ calls[k - 1] = Call("SaveSession", "-", TRUE, FALSE)
            /\ pc = "done"
            /\ result = "ok"
            /\ ExportsPrinted

\* C8 witness: the cleanup failed and the login ended in success.
C8_Witness ==
    /\ pc = "done"
    /\ result = "ok"
    /\ calls[Len(calls)] = Call("CleanupStaleSessions", "-", FALSE, FALSE)
    /\ ExportsPrinted

\* a successful Authenticate is among calls m..n
AuthenticatedBetween(m, n) ==
    \E k \in m..n : calls[k].op = "Authenticate" /\ calls[k].ok

\* C9: Authenticate is called at most once and ListAccounts at most twice, the
\* second time only after a successful Authenticate; and when Authenticate, the
\* token read after it, or the listing after it fails, that failure is what
\* RunLogin returns, with the failed call as the last call made.
C9_OneReauthentication ==
    /\ CallCount("Authenticate") <= 1
    /\ CallCount("ListAccounts") <= 2
    /\ pc = "listAccountsCached" =>
            (CallCount("ListAccounts") = 0 /\ CallCount("Authenticate") = 0)
    /\ pc = "listAccountsFresh" =>
            (CallCount("ListAccounts") <= 1 /\ AuthenticatedBetween(1, Len(calls)))
    /\ \A j \in 1..Len(calls) : \A k \in 1..Len(calls) :
            (j < k /\ calls[j].op = "ListAccounts" /\ calls[k].op = "ListAccounts")
                => AuthenticatedBetween(j + 1, k - 1)
    /\ \A k \in 1..Len(calls) :
        /\ (calls[k].op = "Authenticate" /\ ~calls[k].ok) =>
                /\ k = Len(calls)
                /\ pc = "done"
                /\ result = "SSO authentication failed"
        /\ (calls[k].op = "GetCachedToken" /\ ~calls[k].ok
                /\ AuthenticatedBetween(1, k - 1)) =>
                /\ k = Len(calls)
                /\ pc = "done"
                /\ result = "failed to get access token"
        /\ (calls[k].op = "ListAccounts" /\ ~calls[k].ok
                /\ AuthenticatedBetween(1, k - 1)) =>
                /\ k = Len(calls)
                /\ pc \in {"freshListed", "done"}
                /\ pc = "done" => result = "error listing accounts"

\* C9 witness: the listing with the cached token failed, the re-authentication
\* succeeded, the listing with the fresh token failed too, and RunLogin returned
\* that error.
C9_Witness ==
    /\ pc = "done"
    /\ result = "error listing accounts"
    /\ Len(calls) = 5
    /\ calls[2] = Call("ListAccounts", "cached", FALSE, FALSE)
    /\ calls[3] = Call("Authenticate", "-", TRUE, FALSE)
    /\ calls[5] = Call("ListAccounts", "fresh", FALSE, FALSE)

\* the calls to the directory
DirectoryCalls == {"ListAccounts", "ListRoles", "GetRoleCredentials"}

\* the cached token was read and the listing with it returned an account or more
CachedTokenWorked ==
    /\ ~force
    /\ Len(calls) >= 2
    /\ calls[1].op = "GetCachedToken"
    /\ calls[1].ok
    /\ calls[2].op = "ListAccounts"
    /\ calls[2].ok
    /\ calls[2].some

\* C10: without force, when the cached token is readable and the listing with
\* it returns an account or more, Authenticate is never called: that listing is
\* the only one, its accounts are the ones the selection is made from, and the
\* cached token is the token of every ListRoles and GetRoleCredentials. When the
\* cached token is unreadable, no directory call precedes a successful
\* Authenticate.
C10_CachedTokenPath ==
    /\ CachedTokenWorked =>
            /\ CallCount("Authenticate") = 0
            /\ CallCount("ListAccounts") = 1
            /\ calls[1].token = cachedToken
            /\ pc \notin {"authenticate", "getFreshToken", "listAccountsFresh",
                          "freshListed"}
            /\ pc = "selectAccount" =>
                    (accounts = listed /\ accounts # <<>>)
            /\ \A k \in 1..Len(calls) :
                    calls[k].op \in DirectoryCalls => calls[k].token = calls[1].token
    /\ (~force /\ Len(calls) >= 1 /\ ~calls[1].ok) =>
            /\ calls[1].op = "GetCachedToken"
            /\ pc # "listAccountsCached"
            /\ pc \in {"listAccountsFresh", "listRolesLoop"} =>
                    AuthenticatedBetween(1, Len(calls))
            /\ \A k \in 1..Len(calls) :
                    calls[k].op \in DirectoryCalls => AuthenticatedBetween(1, k - 1)

\* C10 witness: a login that succeeded on the cached token alone.
C10_Witness ==
    /\ pc = "done"
    /\ result = "ok"
    /\ CachedTokenWorked
    /\ CallCount("ListRoles") = 1
    /\ CallCount("GetRoleCredentials") = 1
    /\ creds.token = "cached"

\* C11: with force, the first call is Authenticate and no call precedes it: no
\* directory call is made unless that Authenticate succeeded, and every
\* directory call carries the token that GetCachedToken returned right after it.
C11_ForceBypassesCachedToken ==
    force =>
        /\ pc \notin {"tryCached", "listAccountsCached", "cachedListed"}
        /\ Len(calls) >= 1 => calls[1].op = "Authenticate"
        /\ CallCount("Authenticate") <= 1
        /\ pc \in {"listAccountsFresh", "listRolesLoop"} =>
                /\ calls[1].ok
                /\ calls[2] = Call("GetCachedToken", accessToken, TRUE, FALSE)
        /\ \A k \in 1..Len(calls) :
                calls[k].op \in DirectoryCalls =>
                    /\ k > 2
                    /\ calls[1].ok
                    /\ calls[2].op = "GetCachedToken"
                    /\ calls[2].ok
                    /\ calls[2].token # NoToken
                    /\ calls[k].token = calls[2].token

\* C11 witness: a forced login that went through to the end, on the token read
\* after the authentication.
C11_Witness ==
    /\ force
    /\ pc = "done"
    /\ result = "ok"
    /\ calls[1] = Call("Authenticate", "-", TRUE, FALSE)
    /\ CallCount("ListAccounts") = 1
    /\ CallCount("ListRoles") = 1
    /\ creds.token = calls[2].token

\* call k is a listing that succeeded and returned nothing
EmptyListingAt(k) ==
    /\ calls[k].op \in {"ListAccounts", "ListRoles"}
    /\ calls[k].ok
    /\ ~calls[k].some

\* C12, as claimed: a listing of accounts or of roles that succeeds with no
\* item is the last call of the login, which then fails: no Authenticate, no
\* listing and no selector follows it, and no credentials, profile or session
\* are produced.
C12_EmptyListingNeverRetried ==
    \A k \in 1..Len(calls) :
        EmptyListingAt(k) =>
            /\ k = Len(calls)
            /\ pc = "done" =>
                    result \in {"no accounts found", "no roles found for this account"}
            /\ creds = NoCreds
            /\ profiles = {}
            /\ sessions = {}

\* C12, amended: a listing of accounts made after the authentication, or a
\* listing of roles, that succeeds with no item is the last call of the login,
\* which fails with "no accounts found" or "no roles found for this account": no
\* selector is run for the empty list and no credentials, profile or session are
\* produced. A listing of accounts made with the cached token that succeeds
\* with no account is followed by nothing but the authentication.
C12_EmptyListingAfterAuthIsFatal ==
    \A k \in 1..Len(calls) :
        EmptyListingAt(k) =>
            IF calls[k].op = "ListAccounts" /\ ~AuthenticatedBetween(1, k - 1)
            THEN /\ k = 2
                 /\ k = Len(calls) => pc \in {"cachedListed", "authenticate"}
                 /\ k < Len(calls) => calls[k + 1].op = "Authenticate"
            ELSE /\ k = Len(calls)
                 /\ pc \in {"freshListed", "rolesListed", "done"}
                 /\ pc = "done" =>
                        result = IF calls[k].op = "ListAccounts"
                                 THEN "no accounts found"
                                 ELSE "no roles found for this account"
                 /\ calls[k].op = "ListAccounts" =>
                        CallCount("RunSelector(account)") = 0
                 /\ CallCount("RunSelector(role)") = 0
                 /\ creds = NoCreds
                 /\ profiles = {}
                 /\ sessions = {}

\* C12 witness: the listing with the cached token returned no account, the
\* authentication succeeded, the listing with the fresh token returned no
\* account either, and the login failed with "no accounts found".
C12_Witness ==
    /\ pc = "done"
    /\ result = "no accounts found"
    /\ Len(calls) = 5
    /\ calls[2] = Call("ListAccounts", "cached", TRUE, FALSE)
    /\ calls[3] = Call("Authenticate", "-", TRUE, FALSE)
    /\ calls[5] = Call("ListAccounts", "fresh", TRUE, FALSE)

\* the calls that follow the selection, in the order of the code
TailCalls == <<"GetRoleCredentials", "WriteProfile", "SaveSession", "CleanupStaleSessions">>

\* C13: GetRoleCredentials, WriteProfile, SaveSession and CleanupStaleSessions
\* are each called at most once, each of the last three right after the one
\* before it succeeded; GetRoleCredentials is asked for the selected account id
\* and role name, and the profile written holds the credentials it returned.
C13_SideEffectOrder ==
    /\ \A n \in 1..Len(TailCalls) : CallCount(TailCalls[n]) <= 1
    /\ \A k \in 1..Len(calls) :
        /\ \A n \in 2..Len(TailCalls) :
                calls[k].op = TailCalls[n] =>
                    /\ k > 1
                    /\ calls[k - 1].op = TailCalls[n - 1]
                    /\ calls[k - 1].ok
        /\ calls[k].op = "GetRoleCredentials" =>
                /\ k > 1
                /\ calls[k - 1].op \in {"ListRoles", "RunSelector(role)"}
                /\ calls[k - 1].ok
                /\ selectedAccount # NoAccount
                /\ selectedRole # NoRole
                /\ calls[k].token = accessToken
    /\ creds # NoCreds =>
            /\ CallCount("GetRoleCredentials") = 1
            /\ creds = [token |-> accessToken,
                        accountId |-> selectedAccount.id,
                        roleName |-> selectedRole.name]
    /\ profiles # {} => creds # NoCreds
    /\ profiles \subseteq {[name |-> profileName, creds |-> creds]}
    /\ sessions # {} => profiles # {}

\* C13 witness: all four calls were made, each after the one before it
\* succeeded, for the second account and the second role of the selectors.
C13_Witness ==
    /\ pc = "done"
    /\ Len(calls) >= 4
    /\ \A n \in 1..3 : calls[Len(calls) - 4 + n].op = TailCalls[n]
    /\ calls[Len(calls)].op = "CleanupStaleSessions"
    /\ selectedAccount.id = AccountIdOf(2)
    /\ selectedRole.name = NameReadOnly
    /\ creds.accountId = AccountIdOf(2)
    /\ creds.roleName = NameReadOnly
    /\ profiles = {[name |-> profileName, creds |-> creds]}

\* call k is an account listing that completed without error
ListedAccountsAt(k) == calls[k].op = "ListAccounts" /\ calls[k].ok

\* C14, as claimed: every account listing that completes without error,
\* whatever the number of accounts, is followed by SaveAccountCache: it is the
\* next call, and the login does not end without it.
C14_EveryListingIsCached ==
    \A k \in 1..Len(calls) :
        ListedAccountsAt(k) =>
            /\ k < Len(calls) => calls[k + 1].op = "SaveAccountCache"
            /\ pc = "done" => k < Len(calls)

\* C14, amended: every account listing that completes without error and
\* returns at least one account, with the cached token or after the
\* authentication, is followed at once by SaveAccountCache of the listed
\* accounts, which the cache file holds when the write succeeds; a listing that
\* returns no account is not followed by a write of the cache.
C14_NonEmptyListingIsCached ==
    /\ \A k \in 1..Len(calls) :
        ListedAccountsAt(k) =>
            IF calls[k].some
            THEN /\ k = Len(calls) => pc \in {"cachedListed", "freshListed"}
                 /\ k < Len(calls) => calls[k + 1].op = "SaveAccountCache"
            ELSE k < Len(calls) => calls[k + 1].op # "SaveAccountCache"
    /\ pc = "selectAccount" =>
            /\ calls[Len(calls)].op = "SaveAccountCache"
            /\ listed # <<>>
            /\ accounts = listed
            /\ calls[Len(calls)].ok => accountCache = listed
    /\ CallCount("SaveAccountCache") <= 1

\* C14 witness: after the authentication the listing returned two accounts, and
\* the cache file holds them in the order of the listing.
C14_Witness ==
    /\ pc = "selectAccount"
    /\ Len(calls) = 4
    /\ calls[1] = Call("Authenticate", "-", TRUE, FALSE)
    /\ calls[3] = Call("ListAccounts", "fresh", TRUE, TRUE)
    /\ calls[4] = Call("SaveAccountCache", "-", TRUE, FALSE)
    /\ Len(listed) = 2
    /\ listed[1].name = NameProd
    /\ accountCache = listed

\* C15: a login that succeeds has saved exactly one session; a session saved is
\* keyed by the parent's process id, whatever the process id of the login
\* itself, so that every login from the same shell writes the same key; it
\* carries the selected account id, account name and role name, and its profile
\* name is the one WriteProfile returned, which is also the one printed in the
\* AWS_PROFILE export line.
C15_SessionKeyedByParent ==
    /\ Cardinality(sessions) <= 1
    /\ CallCount("SaveSession") <= 1
    /\ \A s \in sessions :
        /\ s.owner = Ppid
        /\ s.owner \notin Pids
        /\ s.accountId = selectedAccount.id
        /\ s.accountName = selectedAccount.name
        /\ s.roleName = selectedRole.name
        /\ s.profileName = profileName
        /\ profileName # NoProfile
        /\ \E p \in profiles : p.name = s.profileName
    /\ (pc = "done" /\ result = "ok") =>
            /\ Cardinality(sessions) = 1
            /\ ExportsPrinted
            /\ \A s \in sessions :
                    stdout[Len(stdout) - 1] =
                        [text |-> "export AWS_PROFILE", arg |-> s.profileName]

\* C15 witness: a login that succeeded for the account "dev" and the role
\* "Admin", with its one session and its export line.
C15_Witness ==
    /\ pc = "done"
    /\ result = "ok"
    /\ selectedAccount.name = NameLowerDev
    /\ selectedRole.name = NameAdmin
    /\ \E s \in sessions :
        /\ s.owner = Ppid
        /\ s.accountName = NameLowerDev
        /\ s.roleName = NameAdmin
        /\ s.profileName = profileName
    /\ ExportsPrinted

\* the error RunLogin returns when call op fails
ErrorOf(op) ==
    CASE op = "ListRoles" -> "error listing roles"
      [] op = "GetRoleCredentials" -> "error getting role credentials"
      [] op = "WriteProfile" -> "error writing profile"

\* C16: when ListRoles, GetRoleCredentials or WriteProfile fails, the failed
\* call is the last call of the login, which returns the error of that call:
\* SaveSession and CleanupStaleSessions are not called, no session is saved, no
\* export line is printed, and no Authenticate follows. Authenticate is only
\* ever preceded by reads of the cached token and listings of the accounts.
C16_TailFailuresAreFatal ==
    /\ \A k \in 1..Len(calls) :
        (calls[k].op \in {"ListRoles", "GetRoleCredentials", "WriteProfile"}
            /\ ~calls[k].ok) =>
                /\ k = Len(calls)
                /\ pc \in {"rolesListed", "done"}
                /\ pc = "rolesListed" => calls[k].op = "ListRoles"
                /\ pc = "done" => result = ErrorOf(calls[k].op)
                /\ CallCount("SaveSession") = 0
                /\ CallCount("CleanupStaleSessions") = 0
                /\ sessions = {}
                /\ \A n \in 1..Len(stdout) :
                        stdout[n].text \notin {"export AWS_PROFILE", "export AWS_REGION"}
    /\ \A k \in 1..Len(calls) :
        calls[k].op = "Authenticate" =>
            \A j \in 1..(k - 1) : calls[j].op \in {"GetCachedToken", "ListAccounts"}

\* C16 witness: the credentials were obtained and the profile write then
\* failed, which ended the login.
C16_Witness ==
    /\ pc = "done"
    /\ result = "error writing profile"
    /\ calls[Len(calls)] = Call("WriteProfile", "-", FALSE, FALSE)
    /\ calls[Len(calls) - 1].op = "GetRoleCredentials"
    /\ creds # NoCreds
    /\ profiles = {}
    /\ sessions = {}

\* the calls that start the account / role selection
SelectionCalls == {"RunSelector(account)", "ListRoles"}

\* C17: whether SaveAccountCache succeeds or fails, with the cached token or
\* after the authentication, the login goes on to the selection with the
\* accounts that were listed: right after the cache write the selection is
\* about to start on them, the next call is the account selector or ListRoles,
\* and the login never fails with an error of the cache.
C17_CacheFailureHarmless ==
    /\ result # "error saving account cache"
    /\ \A k \in 1..Len(calls) :
        calls[k].op = "SaveAccountCache" =>
            /\ k > 1
            /\ calls[k - 1].op = "ListAccounts"
            /\ calls[k - 1].ok
            /\ k = Len(calls) =>
                    /\ pc \in {"selectAccount", "listRoles", "listRolesLoop"}
                    /\ result = ""
                    /\ pc = "selectAccount" => accounts = listed
                    /\ pc = "listRoles" => SameElements(accounts, listed)
            /\ k < Len(calls) => calls[k + 1].op \in SelectionCalls
            /\ ~calls[k].ok =>
                    \E n \in 1..Len(stdout) :
                        stdout[n].text = "Warning: failed to save account cache"

\* C17 witness: the cache write failed on the cached-token path, and the login
\* went on to succeed.
C17_Witness ==
    /\ pc = "done"
    /\ result = "ok"
    /\ calls[2] = Call("ListAccounts", "cached", TRUE, TRUE)
    /\ calls[3] = Call("SaveAccountCache", "-", FALSE, FALSE)
    /\ stdout[1].text = "Warning: failed to save account cache"
    /\ sessions # {}

\* the positions in cmdCalls of the calls of op
CmdCallsOf(op) == {k \in 1..Len(cmdCalls) : cmdCalls[k].op = op}

\* the positions in cmdCalls of the manager creations
Creations == CmdCallsOf(Constructor(command))

\* the process has exited with status 1
ExitedWith1 == cmdPc = "exited" /\ exitStatus = <<1>>

\* C18: in each resource command PromptForReauth is called at most once, and
\* only as the second call, after the first manager creation failed with an
\* auth error; a creation error that is not an auth error, a prompt error and a
\* declined prompt exit with status 1 with no further creation; and after an
\* accepted prompt the creation is made again exactly once.
C18_ReauthPromptOnce ==
    /\ Cardinality(CmdCallsOf("aws.PromptForReauth")) <= 1
    /\ \A k \in CmdCallsOf("aws.PromptForReauth") :
        /\ k = 2
        /\ cmdCalls[1].op = Constructor(command)
        /\ cmdCalls[1].outcome = "auth"
        /\ cmdCalls[k].outcome \in {"error", "declined"} =>
                /\ k = Len(cmdCalls)
                /\ ExitedWith1
                /\ Creations = {1}
        /\ cmdCalls[k].outcome = "ok" =>
                /\ k = Len(cmdCalls) => (cmdPc = "retryCreate" /\ Creations = {1})
                /\ k < Len(cmdCalls) => Creations = {1, 3}
    /\ (Len(cmdCalls) >= 1 /\ cmdCalls[1].outcome = "other") =>
            /\ Len(cmdCalls) = 1
            /\ ExitedWith1
    /\ (Len(cmdCalls) = 1 /\ cmdCalls[1].outcome = "auth") => cmdPc = "prompt"

\* C18 witness: the first creation failed with an auth error, the prompt was
\* accepted, the creation made again succeeded, and the operation ran, in a
\* command invoked with the switch flag.
C18_Witness ==
    /\ switchAccount
    /\ cmdPc = "exited"
    /\ exitStatus = <<0>>
    /\ Len(cmdCalls) = 4
    /\ cmdCalls[1].outcome = "auth"
    /\ cmdCalls[2] = CmdCall("aws.PromptForReauth", "ok", NoManager)
    /\ cmdCalls[3] = CmdCall(Constructor(command), "ok", [by |-> 3])

\* the last manager creation before call k
LatestCreation(k) ==
    CHOOSE j \in Creations : j < k /\ \A i \in Creations : i < k => i <= j

\* C19: the operation is the last call of the command and is made only when
\* the latest manager creation succeeded, on the manager that creation
\* returned; every call that fails ends the process with status 1, but for the
\* first creation's auth error, which leads to the prompt; and the status is 0
\* only when the operation succeeded.
C19_OperationOnLatestManager ==
    /\ \A k \in CmdCallsOf(Operation(command)) :
        /\ k = Len(cmdCalls)
        /\ \E j \in Creations : j < k
        /\ cmdCalls[LatestCreation(k)].outcome = "ok"
        /\ cmdCalls[k].manager = [by |-> LatestCreation(k)]
        /\ cmdCalls[k].manager = cmdCalls[LatestCreation(k)].manager
    /\ \A k \in 1..Len(cmdCalls) :
        cmdCalls[k].outcome # "ok" =>
            \/ k = 1 /\ cmdCalls[k].outcome = "auth" /\ cmdPc # "exited"
            \/ k = 1 /\ cmdCalls[k].outcome = "auth" /\ Len(cmdCalls) > 1
            \/ k = Len(cmdCalls) /\ ExitedWith1
    /\ cmdPc = "exited" <=> exitStatus # <<>>
    /\ exitStatus \in {<<>>, <<0>>, <<1>>}
    /\ exitStatus = <<0>> =>
            /\ cmdCalls[Len(cmdCalls)].op = Operation(command)
            /\ cmdCalls[Len(cmdCalls)].outcome = "ok"
    /\ cmdPc = "run" => (manager # NoManager /\ \E j \in Creations : manager = [by |-> j])

\* C19 witness: the manager was created, the account was switched, the manager
\* was created again, and the operation failed on that second manager.
C19_Witness ==
    /\ ExitedWith1
    /\ Len(cmdCalls) = 4
    /\ cmdCalls[1] = CmdCall(Constructor(command), "ok", [by |-> 1])
    /\ cmdCalls[2] = CmdCall("handleAccountSwitch", "ok", NoManager)
    /\ cmdCalls[3] = CmdCall(Constructor(command), "ok", [by |-> 3])
    /\ cmdCalls[4] = CmdCall(Operation(command), "error", [by |-> 3])

\* a re-authentication took place: the prompt was accepted
Reauthenticated ==
    \E k \in CmdCallsOf("aws.PromptForReauth") : cmdCalls[k].outcome = "ok"

\* the login workflows the command ran: the accepted prompts and the switches
LoginWorkflows ==
    {k \in CmdCallsOf("aws.PromptForReauth") : cmdCalls[k].outcome = "ok"}
        \cup CmdCallsOf("handleAccountSwitch")

\* C20, as claimed: when the command is over, the account switch has run if
\* and only if the flag is set and no re-authentication took place, and at
\* most one login workflow has run.
C20_SwitchIffFlagAndNoReauth ==
    /\ cmdPc = "exited" =>
            (CmdCallsOf("handleAccountSwitch") # {}
                <=> (switchAccount /\ ~Reauthenticated))
    /\ Cardinality(LoginWorkflows) <= 1

\* C20, amended: the account switch runs if and only if the flag is set and
\* the first manager creation succeeded, in which case no prompt for
\* re-authentication is made; the switch is then the second call. After a
\* re-authentication, and after a creation error or a prompt that ended the
\* command, there is no switch; and at most one login workflow runs.
C20_SwitchIffFlagAndFirstCreation ==
    /\ \A k \in CmdCallsOf("handleAccountSwitch") :
        /\ k = 2
        /\ switchAccount
        /\ ~justAuthenticated
        /\ cmdCalls[1].outcome = "ok"
        /\ CmdCallsOf("aws.PromptForReauth") = {}
    /\ (switchAccount /\ Len(cmdCalls) >= 1 /\ cmdCalls[1].outcome = "ok"
            /\ cmdPc # "switch") =>
            /\ Len(cmdCalls) >= 2
            /\ cmdCalls[2].op = "handleAccountSwitch"
    /\ justAuthenticated <=> Reauthenticated
    /\ Reauthenticated => CmdCallsOf("handleAccountSwitch") = {}
    /\ (Len(cmdCalls) >= 1 /\ cmdCalls[1].outcome # "ok") =>
            CmdCallsOf("handleAccountSwitch") = {}
    /\ Cardinality(LoginWorkflows) <= 1

\* C20 witness: with the flag set, the command re-authenticated, made the
\* manager again and ran the operation without a switch.
C20_Witness ==
    /\ switchAccount
    /\ justAuthenticated
    /\ cmdPc = "exited"
    /\ cmdCalls[Len(cmdCalls)].op = Operation(command)
    /\ CmdCallsOf("handleAccountSwitch") = {}
    /\ Cardinality(LoginWorkflows) = 1

\* a listing call is in its loop, about to send a page request
InListingLoop == pc \in {"listAccountsCached", "listAccountsFresh", "listRolesLoop"}

\* the step that sends a page request, seen from the state before it: the
\* request carries the cursor of the last response, none before the first
\* response, and it is the request that follows page nextToken.page
RequestCarriesLastCursor ==
    /\ nextToken = lastCursor
    /\ requests = nextToken.page
    /\ requests = 0 <=> nextToken = NilCursor
    /\ requests < MaxPages
    /\ failures = 0

\* the step's response came without error and without a cursor
LastPageAnswered == failures' = failures /\ lastCursor' = NilCursor

\* the step's response came without error and with a cursor
MorePagesAnswered == failures' = failures /\ lastCursor' # NilCursor

\* C21: every step of ListAccounts and ListRoles sends one request, which
\* carries no cursor when it is the first and otherwise the cursor of the
\* response before it; a response with a cursor keeps the call in its loop with
\* that cursor for the next request, and the first response without a cursor
\* ends the call at once, without error, after as many requests as the provider
\* served pages.
C21_CursorDiscipline ==
    [][InListingLoop =>
        /\ RequestCarriesLastCursor
        /\ requests' = requests + 1
        /\ LastPageAnswered =>
                /\ ~InListingLoop'
                /\ ~listErr'
                /\ requests' = nextToken.page + 1
                /\ listed' = directory
        /\ MorePagesAnswered =>
                /\ pc' = pc
                /\ nextToken' = lastCursor'
                /\ nextToken'.page = requests'
                /\ nextToken'.offset >= nextToken.offset
      ]_vars

\* C21 witness: a role listing ended without error on the response that came
\* without a cursor, after as many requests as the provider may serve pages,
\* the earlier ones each answered with an item and a cursor.
C21_Witness ==
    /\ pc = "rolesListed"
    /\ ~listErr
    /\ requests = MaxPages
    /\ lastCursor = NilCursor
    /\ failures = 0
    /\ Len(roles) = MaxPages
    /\ roles[1].name = NameReadOnly

\* the names of seq are pairwise distinct
DistinctNames(seq) ==
    \A i \in 1..Len(seq) : \A j \in 1..Len(seq) : i # j => seq[i].name # seq[j].name

\* x is, among the entries of seq whose name equals hint ignoring case, the one
\* whose name is smallest in the case-sensitive order
IsSmallestMatch(x, seq, hint) ==
    /\ \E i \in 1..Len(seq) : seq[i] = x
    /\ SameIgnoringCase(x.name, hint)
    /\ \A i \in 1..Len(seq) :
        SameIgnoringCase(seq[i].name, hint) => ~Less(seq[i].name, x.name)

\* C22: when the listed accounts (roles) have pairwise distinct names and the
\* hint names at least one of them ignoring case, the entry selected is the
\* match whose name is smallest in the case-sensitive order, and it is the
\* entry that the sort and the matching select for every order in which the
\* same candidates may be enumerated.
C22_SelectionIsOrderIndependent ==
    /\ (pc = "listRoles" /\ HintNames(accountName, listed) /\ DistinctNames(listed)) =>
            /\ IsSmallestMatch(selectedAccount, listed, accountName)
            /\ \A r \in Reorderings(listed) : \A s \in SortAccounts(r) :
                    /\ FirstMatch(s, accountName) # 0
                    /\ s[FirstMatch(s, accountName)] = selectedAccount
    /\ (pc = "getRoleCredentials" /\ HintNames(roleName, listed)
            /\ DistinctNames(listed)) =>
            /\ IsSmallestMatch(selectedRole, listed, roleName)
            /\ \A r \in Reorderings(listed) : \A s \in SortRoles(r) :
                    /\ FirstMatch(s, roleName) # 0
                    /\ s[FirstMatch(s, roleName)] = selectedRole

\* C22 witness: "dev" was enumerated before "Dev", both match the hint "DEV",
\* and "Dev", the smaller of the two in the case-sensitive order, was selected.
C22_Witness ==
    /\ pc = "listRoles"
    /\ accountName = HintUpperDev
    /\ Len(listed) = 2
    /\ listed[1].name = NameLowerDev
    /\ listed[2].name = NameDev
    /\ selectedAccount = listed[2]
    /\ CallCount("RunSelector(account)") = 0

Next ==
    \/ Start
    \/ TryCachedToken
    \/ ListAccounts
    \/ CachedListed
    \/ Authenticate
    \/ GetFreshToken
    \/ FreshListed
    \/ SelectAccount
    \/ CallListRoles
    \/ ListRoles
    \/ SelectRole
    \/ GetRoleCredentials
    \/ WriteProfile
    \/ SaveSession
    \/ CleanupAndReport

Spec == Init /\ [][Next]_vars

CommandNext ==
    \/ CreateManager
    \/ PromptForReauth
    \/ RetryCreateManager
    \/ HandleAccountSwitch
    \/ RecreateManager
    \/ RunOperation

CommandSpec == CommandInit /\ [][CommandNext]_vars

====
